---------------------------- MODULE Spec2Model ----------------------------
(***************************************************************************)
(* State-machine model of the GetPdfText tools:                            *)
(*   rename_pdf_by_ocr_result.rename_pdfs, copy_pdf_by_name,               *)
(*   run_ocr.main, verify_filename_match.main and the PdfOcrExtractor      *)
(*   methods they call.                                                    *)
(* Strings are sequences of one-character strings.  A regular expression   *)
(* is a non-empty sequence of character classes (sets of characters), the  *)
(* fixed-length fragment  [..][..]...  of Python's re syntax.              *)
(* Logging and its setup (logging_config.setup_logger) are not modelled;   *)
(* a log record appears in the state only where a property reads it.       *)
(***************************************************************************)
EXTENDS Integers, Sequences, FiniteSets, TLC

VARIABLES
    tool,             \* which program this behaviour runs
    pc,               \* position of the program's main routine
    \* ---- rename_pdf_by_ocr_result.rename_pdfs
    case_insensitive, \* whether pdf_dir lives on a case-insensitive filesystem
    pdf_dir,          \* the PDF directory: stored stem -> content of <stem>.pdf
    pdf_dir0,         \* pdf_dir as it was when the run started
    csv_files,        \* the *_ocr_results.csv tables not handled yet: stem -> first row
    patterns,         \* config["content_regex"]
    success_count,
    fail_count,
    skip_count,
    last_rename,      \* what the loop body did for the table handled last
    \* ---- copy_pdf_by_name.find_and_copy_pdfs
    match_strings,    \* the lookup strings, in list order
    walk,             \* the files os.walk has still to yield: <<name, content>>
    walk0,            \* walk as it was when the run started
    output_dir,       \* the output directory: stored name -> content
    output_dir0,      \* output_dir as it was when the run started
    copied_files,
    unmatched_strings,
    last_copy,        \* what the loop body did for the file handled last
    \* ---- pdf_ocr_extractor.PdfOcrExtractor
    pdf,              \* the document handed to the extractor
    regex_pattern,    \* extract_regex_matches' pattern
    start_page,       \* extract_regex_matches' start_page
    marker,           \* config["marker"]
    output_csv,       \* the CSV files of the output directory: path -> rows
    output_csv0,      \* output_csv as it was when the run started
    csv_writable,     \* whether a CSV file of the output directory can be opened for writing
    returned,         \* what the extractor's method returned or raised
    \* ---- run_ocr.main and verify_filename_match.main
    pdf_files,        \* the PDFs listed in pdf_directory: file name -> document
    filename_regex,   \* config["filename_regex"]
    matches_csv,      \* config.get("matches_csv"), <<>> when it is not set
    future,           \* per file: "pending", "done" (completed), "collected"
    task_result,      \* per file: what future.result() gives once the task is done
    all_matches,
    count,
    mismatch_count,
    error_log,        \* the logger.error records of the driver's loop: <<file, text>>
    verdict,          \* per file: the branch of the verification loop that handled it
    collected,        \* the files in the order the driver collected them
    \* ---- every tool's entry point
    config_file,      \* the file --config names: "ok", "missing" or "malformed"
    exit,             \* how the entry point ended: "none", "returned" or "raised"
    config_error      \* where the failure to load was reported: "none", "print", "log"

renameVars == <<case_insensitive, pdf_dir, pdf_dir0, csv_files, patterns,
                success_count, fail_count, skip_count, last_rename>>

copyVars == <<match_strings, walk, walk0, output_dir, output_dir0,
              copied_files, unmatched_strings, last_copy>>

extractorVars == <<pdf, regex_pattern, start_page, marker, output_csv,
                   output_csv0, csv_writable, returned>>

driverVars == <<pdf_files, filename_regex, matches_csv, future, task_result, all_matches,
                count, mismatch_count, error_log, verdict, collected>>

configVars == <<config_file, exit, config_error>>

vars == <<tool, pc, renameVars, copyVars, extractorVars, driverVars, configVars>>

\* what a step of one program leaves alone
notRename == <<copyVars, extractorVars, driverVars, configVars>>
notCopy == <<pdf_dir, pdf_dir0, csv_files, patterns, success_count, fail_count,
             skip_count, last_rename, extractorVars, driverVars, configVars>>
notExtractor == <<renameVars, copyVars, driverVars, configVars>>
notDriver == <<renameVars, copyVars, pdf, regex_pattern, start_page, returned,
              configVars>>

(***************************************************************************)
(* Bounds of the model.                                                    *)
(***************************************************************************)
MaxTables == 2      \* per-document tables found by the glob in one run
MaxWalk == 2        \* files os.walk yields in one run
MaxLookups == 2     \* lookup strings in the list
MaxPages == 2       \* pages of a document
MaxDocs == 2        \* PDFs in pdf_directory

(***************************************************************************)
(* Characters and strings.                                                 *)
(***************************************************************************)
Upper == {"A"}
Lowercase == {"a", "d"}
Digit == {"1", "2"}
Whitespace == {" ", "\n"}

Range(s) == {s[i] : i \in 1..Len(s)}

Min(S) == CHOOSE x \in S : \A y \in S : x <= y

\* str.lower() on one character
LowerChar(c) ==
    CASE c = "A" -> "a"
      [] c = "B" -> "b"
      [] c = "D" -> "d"
      [] c = "F" -> "f"
      [] c = "P" -> "p"
      [] OTHER -> c

\* str.lower()
Lower(s) == [i \in 1..Len(s) |-> LowerChar(s[i])]

\* str.strip(): drop leading and trailing whitespace
RECURSIVE LStrip(_)
LStrip(s) ==
    IF s # <<>> /\ Head(s) \in Whitespace THEN LStrip(Tail(s)) ELSE s

RECURSIVE RStrip(_)
RStrip(s) ==
    IF s # <<>> /\ s[Len(s)] \in Whitespace
    THEN RStrip(SubSeq(s, 1, Len(s) - 1))
    ELSE s

Strip(s) == RStrip(LStrip(s))

\* needle in haystack (Python's substring test on str)
Contains(haystack, needle) ==
    \E i \in 1..(Len(haystack) - Len(needle) + 1) :
        SubSeq(haystack, i, i + Len(needle) - 1) = needle

(***************************************************************************)
(* Regular expressions: re.search and match.group(0).                      *)
(***************************************************************************)
MatchesAt(p, s, i) ==
    /\ i + Len(p) - 1 <= Len(s)
    /\ \A k \in 1..Len(p) : s[i + k - 1] \in p[k]

MatchPositions(p, s) == {i \in 1..Len(s) : MatchesAt(p, s, i)}

\* re.search(p, s): the leftmost match, as [found, group0]
ReSearch(p, s) ==
    IF MatchPositions(p, s) = {}
    THEN [found |-> FALSE, group0 |-> <<>>]
    ELSE [found |-> TRUE,
          group0 |-> SubSeq(s, Min(MatchPositions(p, s)),
                            Min(MatchPositions(p, s)) + Len(p) - 1)]

(***************************************************************************)
(* rename_pdf_by_ocr_result.py                                             *)
(***************************************************************************)
\* the character class of re.sub(r'[\\/*?:"<>|]', "_", ...)
IllegalChars == {"\\", "/", "*", "?", ":", "\"", "<", ">", "|"}

\* re.sub(r'[\\/*?:"<>|]', "_", new_pdf_name)
Sanitize(name) ==
    [i \in 1..Len(name) |-> IF name[i] \in IllegalChars THEN "_" ELSE name[i]]

\* two stems name the same directory entry
SameEntry(ci, a, b) == IF ci THEN Lower(a) = Lower(b) ELSE a = b

\* Path.exists() of <stem>.pdf in directory dir
Exists(ci, dir, stem) == \E n \in DOMAIN dir : SameEntry(ci, n, stem)

\* Path.resolve(): the entry as stored when it exists, the path as given otherwise
Resolve(ci, dir, stem) ==
    IF Exists(ci, dir, stem)
    THEN CHOOSE n \in DOMAIN dir : SameEntry(ci, n, stem)
    ELSE stem

\* os.rename(old, new): new takes old's content; an entry already at new is replaced
OsRename(ci, dir, old, new) ==
    [n \in (DOMAIN dir \ {Resolve(ci, dir, old), Resolve(ci, dir, new)}) \cup {new} |->
        IF n = new THEN dir[Resolve(ci, dir, old)] ELSE dir[n]]

\* rows a table can start with: csv.DictReader's next(reader, None)
NoRow == [kind |-> "none", text |-> <<>>]           \* header only, or empty file
NoColumnRow == [kind |-> "nocolumn", text |-> <<>>] \* no Matched_Text column
ShortRow == [kind |-> "short", text |-> <<>>]       \* Matched_Text is None
TextRow(t) == [kind |-> "text", text |-> t]

\* lines 82-94: the first pattern, in list order, that matches the stripped text
RECURSIVE FirstPatternMatch(_, _)
FirstPatternMatch(pats, text) ==
    IF pats = <<>> THEN [found |-> FALSE, group0 |-> <<>>]
    ELSE IF ReSearch(Head(pats), text).found THEN ReSearch(Head(pats), text)
    ELSE FirstPatternMatch(Tail(pats), text)

\* lines 74-94: new_pdf_name before sanitizing ([found |-> FALSE] is None)
NewPdfName(pats, row) ==
    IF row.kind = "text"
    THEN FirstPatternMatch(pats, Strip(row.text))
    ELSE [found |-> FALSE, group0 |-> <<>>]

\* the check done on the names as given, not on the directory entries
CollisionByName(ci, dir, old, new) == new \in DOMAIN dir /\ new # old

\* lines 102-105: the target exists and is another file than the source
Collision(ci, dir, old, new) ==
    /\ Exists(ci, dir, new)
    /\ Resolve(ci, dir, new) # Resolve(ci, dir, old)

NoRename == [csv |-> <<>>, outcome |-> "none", target |-> <<>>,
             before |-> <<>>, fails_before |-> 0, row |-> NoRow]

\* lines 62-124: the loop body for one table, tables taken in any order
RenameOne(stem) ==
    LET row == csv_files[stem]
        name == NewPdfName(patterns, row)
        target == Sanitize(name.group0)
        clash == Collision(case_insensitive, pdf_dir, stem, target)
        done(outcome) ==
            [csv |-> stem, outcome |-> outcome,
             target |-> IF name.found THEN target ELSE <<>>,
             before |-> pdf_dir, fails_before |-> fail_count, row |-> row]
    IN
    /\ tool = "rename"
    /\ pc = "loop"
    /\ stem \in DOMAIN csv_files
    /\ csv_files' = [s \in DOMAIN csv_files \ {stem} |-> csv_files[s]]
    /\ IF ~Exists(case_insensitive, pdf_dir, stem)
       THEN \* lines 68-71
            /\ skip_count' = skip_count + 1
            /\ last_rename' = [done("skipped") EXCEPT !.target = <<>>]
            /\ UNCHANGED <<pdf_dir, success_count, fail_count>>
       ELSE IF row.kind = "short"
       THEN \* line 83: None.strip() raises, lines 120-124 count a failure
            /\ fail_count' = fail_count + 1
            /\ last_rename' = done("failed")
            /\ UNCHANGED <<pdf_dir, success_count, skip_count>>
       ELSE IF ~name.found
       THEN \* lines 114-118
            /\ skip_count' = skip_count + 1
            /\ last_rename' = done("skipped")
            /\ UNCHANGED <<pdf_dir, success_count, fail_count>>
       ELSE IF clash
       THEN \* lines 106-109
            /\ fail_count' = fail_count + 1
            /\ last_rename' = done("failed")
            /\ UNCHANGED <<pdf_dir, success_count, skip_count>>
       ELSE \* lines 111-113
            /\ pdf_dir' = OsRename(case_insensitive, pdf_dir, stem, target)
            /\ success_count' = success_count + 1
            /\ last_rename' = done("success")
            /\ UNCHANGED <<fail_count, skip_count>>
    /\ UNCHANGED <<tool, pc, case_insensitive, pdf_dir0, patterns, notRename>>

\* the loop ends with tables left, as when an exception left it
RenameAbort ==
    /\ tool = "rename"
    /\ pc = "loop"
    /\ pc' = "done"
    /\ UNCHANGED <<tool, renameVars, notRename>>

\* lines 126-129: the loop is over, the summary is logged
RenameFinish ==
    /\ tool = "rename"
    /\ pc = "loop"
    /\ csv_files = <<>>
    /\ pc' = "done"
    /\ UNCHANGED <<tool, renameVars, notRename>>

\* nothing returned or raised yet
NoReturn == [status |-> "none", value |-> <<>>, error |-> <<>>]

\* the extractor's state in a behaviour that does not call it
ExtractorIdle ==
    /\ pdf = <<>>
    /\ regex_pattern = <<>>
    /\ start_page = 1
    /\ marker = <<>>
    /\ output_csv = <<>>
    /\ output_csv0 = <<>>
    /\ csv_writable = TRUE
    /\ returned = NoReturn

\* the configuration was loaded
ConfigLoaded ==
    /\ config_file = "ok"
    /\ exit = "none"
    /\ config_error = "none"

\* the drivers' state in a behaviour that runs neither
DriverIdle ==
    /\ pdf_files = <<>>
    /\ filename_regex = <<>>
    /\ matches_csv = <<>>
    /\ future = <<>>
    /\ task_result = <<>>
    /\ all_matches = <<>>
    /\ count = 0
    /\ mismatch_count = 0
    /\ error_log = <<>>
    /\ verdict = <<>>
    /\ collected = <<>>

\* the rename tool's state in a behaviour that runs another program
RenameIdle ==
    /\ pdf_dir = <<>>
    /\ pdf_dir0 = <<>>
    /\ csv_files = <<>>
    /\ patterns = <<>>
    /\ success_count = 0
    /\ fail_count = 0
    /\ skip_count = 0
    /\ last_rename = NoRename

NoCopy == [file |-> <<>>, match |-> <<>>, dst |-> <<>>, before |-> <<>>,
           outcome |-> "none"]

\* the copy tool's state in a behaviour that runs another program
CopyIdle ==
    /\ match_strings = <<>>
    /\ walk = <<>>
    /\ walk0 = <<>>
    /\ output_dir = <<>>
    /\ output_dir0 = <<>>
    /\ copied_files = 0
    /\ unmatched_strings = {}
    /\ last_copy = NoCopy

\* stems of the PDFs and tables of the runs explored
PdfStems == {<<"d", "1">>, <<"a", "1">>, <<"A", "1">>, <<"A", "_", "1">>}
TableStems == {<<"d", "1">>, <<"a", "1">>, <<"A", "_", "1">>}

\* Matched_Text of a table's first row
MatchedTexts == {<<"A", "/", "1">>, <<" ", "a", "1", " ">>, <<"A", "1">>,
                 <<"d", "d">>}

FirstRows == {NoRow, NoColumnRow, ShortRow} \cup {TextRow(t) : t \in MatchedTexts}

\* content_regex: [A-Z]/\d first, then [A-Za-z]\d
ContentRegex == << <<Upper, {"/"}, Digit>>, <<Upper \cup Lowercase, Digit>> >>

Directories(ci) ==
    {d \in UNION {[S -> {"pdf"}] : S \in SUBSET PdfStems} :
        \A a, b \in DOMAIN d : SameEntry(ci, a, b) => a = b}

\* a file's content is named after the stem it had when the run started
InitialDir(d) == [n \in DOMAIN d |-> n]

RenameStart ==
    /\ tool = "rename"
    /\ case_insensitive \in BOOLEAN
    /\ \E d \in Directories(case_insensitive) : pdf_dir = InitialDir(d)
    /\ pdf_dir0 = pdf_dir
    /\ csv_files \in UNION {[S -> FirstRows] :
                            S \in {T \in SUBSET TableStems :
                                     T # {} /\ Cardinality(T) <= MaxTables}}
    /\ patterns = ContentRegex
    /\ success_count = 0
    /\ fail_count = 0
    /\ skip_count = 0
    /\ last_rename = NoRename
    /\ CopyIdle
    /\ ExtractorIdle
    /\ DriverIdle

InitRename ==
    /\ RenameStart
    /\ pc = "loop"
    /\ ConfigLoaded

NextRename ==
    \/ \E stem \in TableStems : RenameOne(stem)
    \/ RenameFinish

SpecRename == InitRename /\ [][NextRename]_vars

(***************************************************************************)
(* copy_pdf_by_name.py                                                     *)
(***************************************************************************)
DigitChar == <<"0", "1", "2", "3", "4", "5", "6", "7", "8", "9">>

\* str(counter)
RECURSIVE Decimal(_)
Decimal(n) ==
    IF n < 10 THEN <<DigitChar[n + 1]>>
    ELSE Decimal(n \div 10) \o <<DigitChar[(n % 10) + 1]>>

\* file.lower().endswith(".pdf")
EndsWithPdf(file) ==
    /\ Len(file) >= 4
    /\ Lower(SubSeq(file, Len(file) - 3, Len(file))) = <<".", "p", "d", "f">>

\* os.path.splitext(file): split at the last dot, unless only dots precede it
SplitExt(file) ==
    LET dots == {i \in 1..Len(file) : file[i] = "."}
        last == IF dots = {} THEN 0 ELSE CHOOSE i \in dots : \A j \in dots : j <= i
    IN  IF last = 0 \/ (\A k \in 1..(last - 1) : file[k] = ".")
        THEN [base |-> file, ext |-> <<>>]
        ELSE [base |-> SubSeq(file, 1, last - 1),
              ext |-> SubSeq(file, last, Len(file))]

\* f"{base}_{counter}{ext}"
Numbered(base, counter, ext) == base \o <<"_">> \o Decimal(counter) \o ext

\* lines 60-67: the while loop, entered with counter and a dst_path that exists
RECURSIVE NextFree(_, _, _, _, _)
NextFree(ci, dir, base, ext, counter) ==
    IF Exists(ci, dir, Numbered(base, counter, ext))
    THEN NextFree(ci, dir, base, ext, counter + 1)
    ELSE Numbered(base, counter, ext)

\* the suffix is added once, without looking whether that name is free
DstNameOnce(ci, dir, file) ==
    IF Exists(ci, dir, file)
    THEN Numbered(SplitExt(file).base, 1, SplitExt(file).ext)
    ELSE file

\* lines 53-67: the name the file is copied to
DstName(ci, dir, file) ==
    IF Exists(ci, dir, file)
    THEN NextFree(ci, dir, SplitExt(file).base, SplitExt(file).ext, 1)
    ELSE file

\* the last lookup string of the list that the name contains wins
LastMatch(strings, file) ==
    LET hits == {i \in 1..Len(strings) : Contains(file, strings[i])}
    IN  IF hits = {} THEN 0 ELSE CHOOSE i \in hits : \A k \in hits : k <= i

\* lines 50-51: the index of the first lookup string contained in the name, or 0
FirstMatch(strings, file) ==
    LET hits == {i \in 1..Len(strings) : Contains(file, strings[i])}
    IN  IF hits = {} THEN 0 ELSE Min(hits)

\* shutil.copy2(src, dst): dst gets the content, over whatever entry dst names
Copy2(ci, dir, dst, content) ==
    [n \in DOMAIN dir \cup {Resolve(ci, dir, dst)} |->
        IF n = Resolve(ci, dir, dst) THEN content ELSE dir[n]]

\* what shutil.copy2 can do: succeed, raise OSError before it creates dst, or
\* raise OSError after it created dst
CopyResults == {"ok", "refused", "partial"}

\* the string is taken out when it is in the set and put in when it is not
Toggle(strings, match_str) ==
    IF match_str \in strings THEN strings \ {match_str} ELSE strings \cup {match_str}

\* line 75: unmatched_strings.discard(match_str)
Discard(strings, match_str) == strings \ {match_str}

\* lines 45-79: the loop body for the next file os.walk yields
CopyOne(result) ==
    LET file == Head(walk)[1]
        content == Head(walk)[2]
        i == FirstMatch(match_strings, file)
        dst == DstName(case_insensitive, output_dir, file)
        did(outcome) ==
            [file |-> file,
             match |-> IF outcome = "nomatch" THEN <<>> ELSE match_strings[i],
             dst |-> IF outcome = "nomatch" THEN <<>> ELSE dst,
             before |-> output_dir, outcome |-> outcome]
    IN
    /\ tool = "copy"
    /\ pc = "walk"
    /\ walk # <<>>
    /\ walk' = Tail(walk)
    /\ IF ~EndsWithPdf(file) \/ i = 0
       THEN \* lines 46-47, or no lookup string is contained in the name
            /\ result = "ok"
            /\ last_copy' = did("nomatch")
            /\ UNCHANGED <<output_dir, copied_files, unmatched_strings>>
       ELSE IF result = "ok"
       THEN \* lines 70-75
            /\ output_dir' = Copy2(case_insensitive, output_dir, dst, content)
            /\ copied_files' = copied_files + 1
            /\ unmatched_strings' = Discard(unmatched_strings, match_strings[i])
            /\ last_copy' = did("copied")
       ELSE \* lines 76-77: OSError, logged
            /\ output_dir' = IF result = "partial"
                             THEN Copy2(case_insensitive, output_dir, dst, "partial")
                             ELSE output_dir
            /\ last_copy' = did("error")
            /\ UNCHANGED <<copied_files, unmatched_strings>>
    /\ UNCHANGED <<tool, pc, case_insensitive, match_strings, walk0, output_dir0,
                   notCopy>>

\* line 81: return copied_files, unmatched_strings
CopyReturn ==
    /\ tool = "copy"
    /\ pc = "walk"
    /\ walk = <<>>
    /\ pc' = "done"
    /\ UNCHANGED <<tool, case_insensitive, copyVars, notCopy>>

Pdf(stem) == stem \o <<".", "p", "d", "f">>

\* names of the files under the target directories
WalkNames == {Pdf(<<"A", "1">>), Pdf(<<"A", "B">>), <<"B", ".", "P", "D", "F">>,
              Pdf(<<"A", "1", "_", "1">>), <<"A", ".", "t", "x", "t">>}

\* names already in the output directory
OutputNames == {Pdf(<<"A", "1">>), Pdf(<<"A", "1", "_", "1">>)}

Lookups == {<<"A">>, <<"B">>, <<"C">>}

SeqsUpTo(S, n) == UNION {[1..k -> S] : k \in 0..n}

\* the content of the i-th file of the walk
WalkContent == <<"f1", "f2", "f3", "f4">>

CopyStart ==
    /\ tool = "copy"
    /\ case_insensitive \in BOOLEAN
    /\ match_strings \in {m \in SeqsUpTo(Lookups, MaxLookups) :
                            \A i, j \in 1..Len(m) : m[i] = m[j] => i = j}
    /\ \E names \in SeqsUpTo(WalkNames, MaxWalk) :
          walk = [i \in 1..Len(names) |-> <<names[i], WalkContent[i]>>]
    /\ walk0 = walk
    /\ \E S \in SUBSET OutputNames : output_dir = [n \in S |-> "old"]
    /\ output_dir0 = output_dir
    /\ copied_files = 0
    /\ unmatched_strings = Range(match_strings)
    /\ last_copy = NoCopy
    /\ RenameIdle
    /\ ExtractorIdle
    /\ DriverIdle

InitCopy ==
    /\ CopyStart
    /\ pc = "walk"
    /\ ConfigLoaded

NextCopy ==
    \/ \E result \in CopyResults : CopyOne(result)
    \/ CopyReturn

SpecCopy == InitCopy /\ [][NextCopy]_vars

(***************************************************************************)
(* pdf_ocr_extractor.py                                                    *)
(* A document is [name, raster, pages]: raster is "ok" or the class of the *)
(* exception convert_from_path raises for it; a page is [ok, text], the    *)
(* text pytesseract recognizes on it, ok = FALSE when image_to_string      *)
(* raises on it.  An error message is a sequence of words.                 *)
(***************************************************************************)
Return(v) == [status |-> "returned", value |-> v, error |-> <<>>]

\* raise: error is [type, msg], msg being str(e)
Raise(type, msg) ==
    [status |-> "raised", value |-> <<>>, error |-> [type |-> type, msg |-> msg]]

\* str(e) of the exceptions of rasterization and recognition; MemoryError() has none
ErrorMessage(type) ==
    CASE type = "MemoryError" -> <<>>
      [] type = "PDFPageCountError" -> <<"Unable", "to", "get", "page", "count">>
      [] type = "DecompressionBombError" ->
            <<"Image", "size", "exceeds", "limit">>
      [] type = "DecompressionBombWarning" ->
            <<"Image", "size", "exceeds", "limit">>
      [] OTHER -> <<"Tesseract", "failed">>

\* lines 46-57: _pdf_to_images, the pages from start_page on, or the error re-raised
PdfToImages(doc, first_page) ==
    IF doc.raster # "ok"
    THEN Raise(doc.raster, ErrorMessage(doc.raster))
    ELSE Return(SubSeq(doc.pages, first_page, Len(doc.pages)))

\* lines 89-105: _ocr_images, the text of every page, or the first error re-raised
OcrImages(images) ==
    IF \E i \in 1..Len(images) : ~images[i].ok
    THEN Raise("TesseractError", ErrorMessage("TesseractError"))
    ELSE Return([i \in 1..Len(images) |-> images[i].text])

\* str.splitlines(): the pieces between line breaks, no empty piece after a final break
RECURSIVE SplitLines(_)
SplitLines(text) ==
    IF text = <<>> THEN <<>>
    ELSE LET breaks == {i \in 1..Len(text) : text[i] = "\n"}
         IN  IF breaks = {} THEN <<text>>
             ELSE <<SubSeq(text, 1, Min(breaks) - 1)>>
                  \o SplitLines(SubSeq(text, Min(breaks) + 1, Len(text)))

\* lines 116-126: the matching lines of one page, in line order
RECURSIVE MarkerLines(_, _, _)
MarkerLines(lines, marker_string, current_page) ==
    IF lines = <<>> THEN <<>>
    ELSE (IF Contains(Head(lines), marker_string)
          THEN << <<current_page, Strip(Head(lines))>> >>
          ELSE <<>>)
         \o MarkerLines(Tail(lines), marker_string, current_page)

\* lines 107-129: _extract_marker_line, (page_number, match_text) in page order
RECURSIVE ExtractMarkerLine(_, _, _)
ExtractMarkerLine(text_per_page, marker_string, first_page) ==
    IF text_per_page = <<>> THEN <<>>
    ELSE MarkerLines(SplitLines(Head(text_per_page)), marker_string, first_page)
         \o ExtractMarkerLine(Tail(text_per_page), marker_string, first_page + 1)

CsvHeader == <<"pdf_path", "page", "text">>

\* lines 131-155: _append_matches_to_csv; an error of the write is logged, not raised
AppendMatchesToCsv(files, csv_path, matches, writable) ==
    IF ~writable THEN files
    ELSE [f \in DOMAIN files \cup {csv_path} |->
            IF f # csv_path THEN files[f]
            ELSE (IF csv_path \in DOMAIN files THEN files[f] ELSE <<CsvHeader>>)
                 \o matches]

\* no path is handed over: _append_matches_to_csv falls back to the shared table
SharedCsvPath(pdf_path) == <<"matches.csv">>

\* lines 213-216: <output_directory>/<stem of the PDF>_matches.csv
IndividualCsvPath(pdf_path) == SplitExt(pdf_path).base \o <<"_matches.csv">>

\* the table is written although no line matched
WriteAlways(files, csv_path, csv_matches, writable) ==
    AppendMatchesToCsv(files, csv_path, csv_matches, writable)

\* lines 211-217: the per-document table is written when there are matches
WriteIndividualCsv(files, csv_path, csv_matches, writable) ==
    IF csv_matches # <<>>
    THEN AppendMatchesToCsv(files, csv_path, csv_matches, writable)
    ELSE files

\* lines 194-223: extract_matches_from_pdf, as [result, files]
ExtractMatchesFromPdf(doc, marker_string, files, writable) ==
    LET images == PdfToImages(doc, 1)
        text_per_page == OcrImages(images.value)
        matches_with_page == ExtractMarkerLine(text_per_page.value, marker_string, 1)
        csv_matches == [i \in 1..Len(matches_with_page) |->
                          <<doc.name, matches_with_page[i][1], matches_with_page[i][2]>>]
    IN  IF images.status = "raised" THEN [result |-> images, files |-> files]
        ELSE IF text_per_page.status = "raised"
        THEN [result |-> text_per_page, files |-> files]
        ELSE [result |-> Return(csv_matches),
              files |-> WriteIndividualCsv(files, IndividualCsvPath(doc.name),
                                           csv_matches, writable)]

\* re.finditer(p, s): the non-overlapping matches, scanning from the left
RECURSIVE FindIterFrom(_, _, _)
FindIterFrom(p, s, i) ==
    IF i > Len(s) THEN <<>>
    ELSE IF MatchesAt(p, s, i)
    THEN <<SubSeq(s, i, i + Len(p) - 1)>> \o FindIterFrom(p, s, i + Len(p))
    ELSE FindIterFrom(p, s, i + 1)

FindIter(p, s) == FindIterFrom(p, s, 1)

\* matches kept in a list: a match found again is added again
ListAdd(acc, x) == Append(acc, x)

\* set.add: the set is kept as a sequence without repetition
SetAdd(acc, x) == IF x \in Range(acc) THEN acc ELSE Append(acc, x)

\* line 180: match.group(0).strip()
FullMatch(m) == Strip(m)

\* lines 179-183: the matches of one page
RECURSIVE AddMatches(_, _)
AddMatches(acc, found) ==
    IF found = <<>> THEN acc
    ELSE AddMatches(IF FullMatch(Head(found)) # <<>>
                    THEN SetAdd(acc, FullMatch(Head(found)))
                    ELSE acc,
                    Tail(found))

\* lines 173-183: the loop over the pages
RECURSIVE ScanPages(_, _, _)
ScanPages(acc, text_per_page, p) ==
    IF text_per_page = <<>> THEN acc
    ELSE ScanPages(IF Head(text_per_page) = <<>> THEN acc
                   ELSE AddMatches(acc, FindIter(p, Head(text_per_page))),
                   Tail(text_per_page), p)

\* list(matches): the elements of the set in any order
ListOf(acc) == {[i \in 1..Len(acc) |-> acc[f[i]]] : f \in Permutations(1..Len(acc))}

\* lines 157-192: extract_regex_matches before list(matches)
ExtractRegexMatches(doc, p, first_page) ==
    LET images == PdfToImages(doc, first_page)
        text_per_page == OcrImages(images.value)
    IN  IF images.status = "raised" THEN images
        ELSE IF text_per_page.status = "raised" THEN text_per_page
        ELSE Return(ScanPages(<<>>, text_per_page.value, p))

\* a call of extract_regex_matches
CallExtractRegexMatches ==
    /\ tool = "regex"
    /\ pc = "call"
    /\ LET r == ExtractRegexMatches(pdf, regex_pattern, start_page)
       IN  \E order \in ListOf(r.value) : returned' = [r EXCEPT !.value = order]
    /\ pc' = "done"
    /\ UNCHANGED <<tool, pdf, regex_pattern, start_page, marker, output_csv,
                   output_csv0, csv_writable, notExtractor>>

\* a call of extract_matches_from_pdf
CallExtractMatchesFromPdf ==
    /\ tool = "marker"
    /\ pc = "call"
    /\ LET r == ExtractMatchesFromPdf(pdf, marker, output_csv, csv_writable)
       IN  /\ returned' = r.result
           /\ output_csv' = r.files
    /\ pc' = "done"
    /\ UNCHANGED <<tool, pdf, regex_pattern, start_page, marker, output_csv0,
                   csv_writable, notExtractor>>

GoodPage(text) == [ok |-> TRUE, text |-> text]
BadPage == [ok |-> FALSE, text |-> <<>>]

\* what convert_from_path does with a document
RasterOutcomes == {"ok", "PDFPageCountError", "MemoryError", "DecompressionBombError",
                   "DecompressionBombWarning"}

\* the documents whose pages carry the texts of Texts; a document that cannot be
\* rasterized has no pages to speak of
Documents(names, Texts, rasters) ==
    {[name |-> n, raster |-> "ok", pages |-> pp] :
        n \in names,
        pp \in SeqsUpTo({GoodPage(t) : t \in Texts} \cup {BadPage}, MaxPages)}
    \cup {[name |-> n, raster |-> r, pages |-> <<>>] :
            n \in names, r \in rasters \ {"ok"}}

\* page texts for the regular expressions: every string of at most two of these
\* characters, and some longer ones where matches overlap or repeat
RegexChars == {"a", "1", "2", " "}
RegexTexts ==
    SeqsUpTo(RegexChars, 2)
    \cup {<<"1", "1", "1">>, <<"a", "1", "a", "1">>, <<"1", " ", "1">>,
          <<"a", "1", " ", "a", "2">>, <<" ", "a", "1", "1">>,
          <<" ", "1", " ", "2">>}

\* \d, [a-z]\d, \s\d, \d\d, [a-z\s], \d\s
RegexPatterns == {<<Digit>>, <<Lowercase, Digit>>, <<Whitespace, Digit>>,
                  <<Digit, Digit>>, <<Lowercase \cup Whitespace>>,
                  <<Digit, Whitespace>>}

InitRegex ==
    /\ tool = "regex"
    /\ pc = "call"
    /\ pdf \in Documents({Pdf(<<"a">>)}, RegexTexts, {"ok", "PDFPageCountError"})
    /\ regex_pattern \in RegexPatterns
    /\ start_page \in {1, 2}
    /\ marker = <<>>
    /\ output_csv = <<>>
    /\ output_csv0 = <<>>
    /\ csv_writable = TRUE
    /\ returned = NoReturn
    /\ case_insensitive = FALSE
    /\ RenameIdle
    /\ CopyIdle
    /\ DriverIdle
    /\ ConfigLoaded

SpecRegex == InitRegex /\ [][CallExtractRegexMatches]_vars

\* page texts for the marker search
MarkerTexts == {<<>>, <<"M", "K">>, <<" ", "M", "K", " ", "\n", "x">>,
                <<"x", "\n", "M", "K">>, <<"M", "\n", "K">>,
                <<"x", "M", "K", "\n", "M", "K", "\n">>, <<"x">>, <<"\n">>,
                <<"K", "M">>}

Markers == {<<"M", "K">>, <<"x">>}

\* the rows of a table left by an earlier run
OldTable == <<CsvHeader, <<Pdf(<<"a">>), 1, <<"o", "l", "d">>>>>>

InitMarker ==
    /\ tool = "marker"
    /\ pc = "call"
    /\ pdf \in Documents({Pdf(<<"a">>)}, MarkerTexts, {"ok", "PDFPageCountError"})
    /\ marker \in Markers
    /\ regex_pattern = <<>>
    /\ start_page = 1
    /\ output_csv \in {<<>>, [f \in {IndividualCsvPath(Pdf(<<"a">>))} |-> OldTable]}
    /\ output_csv0 = output_csv
    /\ csv_writable \in BOOLEAN
    /\ returned = NoReturn
    /\ case_insensitive = FALSE
    /\ RenameIdle
    /\ CopyIdle
    /\ DriverIdle
    /\ ConfigLoaded

SpecMarker == InitMarker /\ [][CallExtractMatchesFromPdf]_vars

(***************************************************************************)
(* run_ocr.py and verify_filename_match.py: the concurrent drivers.        *)
(* Every PDF of the directory is one task of a process pool.  A task is    *)
(* one call of the wrapper in a worker; the driver takes the completed     *)
(* futures in any order.  A document whose raster is "WorkerDies" kills    *)
(* the worker that rasterizes it, which breaks the pool.                   *)
(* A result of future.result() is [raises, matches_none, matches,          *)
(* error_none, error]: the pair (matches, error) with None told apart      *)
(* from the empty list and the empty string, or the exception it raises.   *)
(***************************************************************************)
Pending ==
    [raises |-> FALSE, matches_none |-> TRUE, matches |-> <<>>,
     error_none |-> TRUE, error |-> <<>>]

\* return matches, None
Ok(matches) ==
    [raises |-> FALSE, matches_none |-> FALSE, matches |-> matches,
     error_none |-> TRUE, error |-> <<>>]

\* return None, <message>
Failed(msg) ==
    [raises |-> FALSE, matches_none |-> TRUE, matches |-> <<>>,
     error_none |-> FALSE, error |-> msg]

\* future.result() raises BrokenProcessPool
Broken ==
    [raises |-> TRUE, matches_none |-> TRUE, matches |-> <<>>,
     error_none |-> TRUE, error |-> <<"BrokenProcessPool">>]

\* run_ocr.py line 104, verify_filename_match.py line 155: "if error:";
\* None and the empty string are both false
ErrorIsTruthy(r) == ~r.error_none /\ r.error # <<>>

\* the worker that rasterizes doc dies: every future not yet completed fails
WorkerDies(d) ==
    /\ future' = [x \in DOMAIN future |->
                    IF future[x] = "pending" THEN "done" ELSE future[x]]
    /\ task_result' = [x \in DOMAIN future |->
                         IF future[x] = "pending" THEN Broken ELSE task_result[x]]

\* run_ocr.py lines 24-40: process_pdf_wrapper, as [result, files]
ProcessPdfWrapper(doc, files, writable) ==
    LET r == ExtractMatchesFromPdf(doc, marker, files, writable)
    IN  [result |-> IF r.result.status = "raised"
                    THEN Failed(r.result.error.msg)
                    ELSE Ok(r.result.value),
         files |-> r.files]

\* a worker runs the task of file d
OcrTask(d) ==
    /\ tool = "run_ocr"
    /\ pc = "pool"
    /\ future[d] = "pending"
    /\ IF pdf_files[d].raster = "WorkerDies"
       THEN /\ WorkerDies(d)
            /\ UNCHANGED output_csv
       ELSE LET r == ProcessPdfWrapper(pdf_files[d], output_csv, csv_writable)
            IN  /\ future' = [future EXCEPT ![d] = "done"]
                /\ task_result' = [task_result EXCEPT ![d] = r.result]
                /\ output_csv' = r.files
    /\ UNCHANGED <<tool, pc, pdf_files, filename_regex, matches_csv, all_matches, count,
                   mismatch_count, error_log, verdict, collected, marker,
                   output_csv0, csv_writable, notDriver>>

\* run_ocr.py lines 99-112: one turn of the as_completed loop
OcrCollect(d) ==
    /\ tool = "run_ocr"
    /\ pc = "pool"
    /\ future[d] = "done"
    /\ future' = [future EXCEPT ![d] = "collected"]
    /\ collected' = Append(collected, d)
    /\ LET r == task_result[d]
       IN  IF r.raises \/ ErrorIsTruthy(r)
           THEN /\ error_log' = Append(error_log, <<d, r.error>>)
                /\ UNCHANGED <<all_matches, count>>
           ELSE /\ all_matches' = all_matches \o r.matches
                /\ count' = count + 1
                /\ UNCHANGED error_log
    /\ UNCHANGED <<tool, pc, pdf_files, filename_regex, matches_csv, task_result,
                   mismatch_count, verdict, marker, output_csv, output_csv0,
                   csv_writable, notDriver>>

\* <output_directory>/matches.csv
MatchesCsv == <<"matches.csv">>

\* run_ocr.py lines 119-125: config.get("matches_csv") when set, else the default
AggregatePath == IF matches_csv # <<>> THEN matches_csv ELSE MatchesCsv

WriteError == <<"write", "failed">>

\* run_ocr.py lines 127-138: the rows are appended as collected, under a header
\* when the file is new; an error of the write is logged
WriteAggregate(files, csv_path, rows, writable) ==
    IF ~writable THEN files
    ELSE [f \in DOMAIN files \cup {csv_path} |->
            IF f # csv_path THEN files[f]
            ELSE (IF csv_path \in DOMAIN files THEN files[f] ELSE <<CsvHeader>>)
                 \o rows]

\* run_ocr.py lines 114-140: after the pool has drained
OcrWrite ==
    /\ tool = "run_ocr"
    /\ pc = "pool"
    /\ \A d \in DOMAIN future : future[d] = "collected"
    /\ IF all_matches # <<>>
       THEN /\ output_csv' = WriteAggregate(output_csv, AggregatePath, all_matches,
                                            csv_writable)
            /\ error_log' = IF csv_writable THEN error_log
                            ELSE Append(error_log, <<AggregatePath, WriteError>>)
       ELSE UNCHANGED <<output_csv, error_log>>
    /\ pc' = "done"
    /\ UNCHANGED <<tool, pdf_files, filename_regex, matches_csv, future, task_result,
                   all_matches, count, mismatch_count, verdict, collected,
                   marker, output_csv0, csv_writable, notDriver>>

UnmatchCsv == <<"unmatches.csv">>
SkippedCsv == <<"skipped_errors.csv">>
UnmatchHeader == <<"file_name", "filename_match", "ocr_matches">>
SkippedHeader == <<"file_name", "error_type">>
BombWarning == <<"DecompressionBombWarning">>
BombError == <<"DecompressionBombError">>
NoMatchInFilename == <<"NO_MATCH_IN_FILENAME">>

\* verify_filename_match.py lines 36-57: verify_pdf_wrapper, the results it can
\* return (the order of list(matches) is not fixed)
VerifyPdfWrapper(doc, p) ==
    LET r == ExtractRegexMatches(doc, p, 2)
    IN  IF r.status = "raised"
        THEN {IF r.error.type = "DecompressionBombWarning" THEN Failed(BombWarning)
              ELSE IF r.error.type = "DecompressionBombError" THEN Failed(BombError)
              ELSE Failed(r.error.msg)}
        ELSE {Ok(m) : m \in ListOf(r.value)}

\* a worker runs the task of file d
VerifyTask(d) ==
    /\ tool = "verify"
    /\ pc = "pool"
    /\ future[d] = "pending"
    /\ IF pdf_files[d].raster = "WorkerDies"
       THEN WorkerDies(d)
       ELSE \E r \in VerifyPdfWrapper(pdf_files[d], filename_regex) :
               /\ future' = [future EXCEPT ![d] = "done"]
               /\ task_result' = [task_result EXCEPT ![d] = r]
    /\ UNCHANGED <<tool, pc, pdf_files, filename_regex, matches_csv, all_matches, count,
                   mismatch_count, error_log, verdict, collected, marker,
                   output_csv, output_csv0, csv_writable, notDriver>>

\* lines 156-159: "DecompressionBombWarning" in error or "DecompressionBombError" in error
IsBomb(error) == Contains(error, BombWarning) \/ Contains(error, BombError)

\* the filename's last match of the pattern
LastFilenameMatch(p, file_name) ==
    IF MatchPositions(p, file_name) = {}
    THEN [found |-> FALSE, group0 |-> <<>>]
    ELSE LET last == CHOOSE i \in MatchPositions(p, file_name) :
                        \A j \in MatchPositions(p, file_name) : j <= i
         IN  [found |-> TRUE, group0 |-> SubSeq(file_name, last, last + Len(p) - 1)]

\* lines 180-183: re.search(filename_regex, file_name), group(0) or None
FilenameMatch(p, file_name) == ReSearch(p, file_name)

\* a row is written for a verified file too
RowAlways(is_match, file_name, filename_match_str, matches) ==
    << <<file_name, filename_match_str, Range(matches)>> >>

\* lines 199-216: the row of unmatches.csv for a file whose name matches the
\* pattern; str(matches) is kept as the set of the elements of the list
UnmatchRows(is_match, file_name, filename_match_str, matches) ==
    IF is_match THEN <<>>
    ELSE << <<file_name, filename_match_str, Range(matches)>> >>

\* open(path, "a") ... writer.writerow(row)
AppendRows(files, path, rows) == [files EXCEPT ![path] = files[path] \o rows]

\* the branch of the loop that handled a file, and what it logged or wrote
Verdict(kind, evidence) == [kind |-> kind, evidence |-> evidence]

\* verify_filename_match.py lines 148-221: one turn of the as_completed loop
VerifyCollect(d) ==
    /\ tool = "verify"
    /\ pc = "pool"
    /\ future[d] = "done"
    /\ future' = [future EXCEPT ![d] = "collected"]
    /\ collected' = Append(collected, d)
    /\ LET r == task_result[d]
           m == FilenameMatch(filename_regex, d)
           is_match == m.group0 \in Range(r.matches)
           did(kind, evidence) ==
               verdict' = [verdict EXCEPT ![d] = Append(@, Verdict(kind, evidence))]
       IN  IF r.raises
           THEN /\ error_log' = Append(error_log, <<d, r.error>>)
                /\ did("uncaught", r.error)
                /\ UNCHANGED <<output_csv, count, mismatch_count>>
           ELSE IF ErrorIsTruthy(r)
           THEN IF IsBomb(r.error)
                THEN /\ output_csv' = AppendRows(output_csv, SkippedCsv,
                                                 << <<d, r.error>> >>)
                     /\ did("guard", r.error)
                     /\ UNCHANGED <<error_log, count, mismatch_count>>
                ELSE /\ error_log' = Append(error_log, <<d, r.error>>)
                     /\ did("error", r.error)
                     /\ UNCHANGED <<output_csv, count, mismatch_count>>
           ELSE IF r.matches = <<>>
           THEN /\ did("skipped", {})
                /\ UNCHANGED <<output_csv, error_log, count, mismatch_count>>
           ELSE IF ~m.found
           THEN /\ output_csv' = AppendRows(output_csv, UnmatchCsv,
                                    << <<d, NoMatchInFilename, Range(r.matches)>> >>)
                /\ mismatch_count' = mismatch_count + 1
                /\ did("mismatched", Range(r.matches))
                /\ UNCHANGED <<error_log, count>>
           ELSE /\ output_csv' = AppendRows(output_csv, UnmatchCsv,
                                    UnmatchRows(is_match, d, m.group0, r.matches))
                /\ mismatch_count' = IF is_match THEN mismatch_count
                                     ELSE mismatch_count + 1
                /\ count' = count + 1
                /\ did(IF is_match THEN "verified" ELSE "mismatched",
                       Range(r.matches))
                /\ UNCHANGED error_log
    /\ UNCHANGED <<tool, pc, pdf_files, filename_regex, matches_csv, task_result, all_matches,
                   marker, output_csv0, csv_writable, notDriver>>

\* ord(c) of the characters of the file names
CodePoint(c) ==
    CASE c = " " -> 32
      [] c = "." -> 46
      [] c = "1" -> 49
      [] c = "2" -> 50
      [] c = "A" -> 65
      [] c = "D" -> 68
      [] c = "F" -> 70
      [] c = "P" -> 80
      [] c = "a" -> 97
      [] c = "b" -> 98
      [] c = "d" -> 100
      [] c = "f" -> 102
      [] c = "p" -> 112
      [] c = "t" -> 116
      [] OTHER -> 120

\* a <= b for Python strings: by code point, a proper prefix first
RECURSIVE StrLeq(_, _)
StrLeq(a, b) ==
    IF a = <<>> THEN TRUE
    ELSE IF b = <<>> THEN FALSE
    ELSE IF Head(a) = Head(b) THEN StrLeq(Tail(a), Tail(b))
    ELSE CodePoint(Head(a)) < CodePoint(Head(b))

\* the row goes behind the rows whose key is not greater: the sort is stable
RECURSIVE InsertRow(_, _)
InsertRow(row, sorted) ==
    IF sorted = <<>> THEN <<row>>
    ELSE IF StrLeq(Head(sorted)[1], row[1])
    THEN <<Head(sorted)>> \o InsertRow(row, Tail(sorted))
    ELSE <<row>> \o sorted

RECURSIVE SortFrom(_, _)
SortFrom(sorted, data) ==
    IF data = <<>> THEN sorted
    ELSE SortFrom(InsertRow(Head(data), sorted), Tail(data))

\* the rows are written back as they were read
KeepOrder(data) == data

\* line 238: data.sort(key=lambda x: x[0])
SortData(data) == SortFrom(<<>>, data)

SortError == <<"sort", "failed">>

\* lines 226-246: sort_csv; ok = FALSE when reading or rewriting the file raises,
\* which is logged and leaves the file as it was
SortCsv(files, file_path, ok) ==
    IF file_path \notin DOMAIN files \/ ~ok \/ Len(files[file_path]) <= 1
    THEN files
    ELSE [files EXCEPT ![file_path] = <<Head(@)>> \o SortData(Tail(@))]

\* lines 223-249: after the pool has drained
VerifyFinish(ok_unmatch, ok_skipped) ==
    /\ tool = "verify"
    /\ pc = "pool"
    /\ \A d \in DOMAIN future : future[d] = "collected"
    /\ output_csv' = SortCsv(SortCsv(output_csv, UnmatchCsv, ok_unmatch),
                             SkippedCsv, ok_skipped)
    /\ error_log' = error_log
                    \o (IF ok_unmatch THEN <<>> ELSE << <<UnmatchCsv, SortError>> >>)
                    \o (IF ok_skipped THEN <<>> ELSE << <<SkippedCsv, SortError>> >>)
    /\ pc' = "done"
    /\ UNCHANGED <<tool, pdf_files, filename_regex, matches_csv, future, task_result,
                   all_matches, count, mismatch_count, verdict, collected,
                   marker, output_csv0, csv_writable, notDriver>>

\* the documents of the run_ocr runs: a marker line, none, marker lines on two
\* pages, a page that cannot be recognized, no memory to rasterize, a dying worker
OcrDocuments ==
    {[raster |-> "ok", pages |-> <<GoodPage(<<"M", "K">>)>>],
     [raster |-> "ok", pages |-> <<GoodPage(<<"x">>)>>],
     [raster |-> "ok", pages |-> <<GoodPage(<<"x", "\n", "M", "K">>),
                                   GoodPage(<<"M", "K", " ">>)>>],
     [raster |-> "ok", pages |-> <<GoodPage(<<"M", "K">>), BadPage>>],
     [raster |-> "MemoryError", pages |-> <<>>],
     [raster |-> "WorkerDies", pages |-> <<>>]}

\* the entries of pdf_directory
OcrNames == {Pdf(<<"a">>), Pdf(<<"b">>), <<"a", ".", "P", "D", "F">>,
             <<"a", ".", "t", "x", "t">>}

\* os.listdir(pdf_directory) filtered by f.lower().endswith(".pdf")
ListPdfFiles(directory) ==
    [f \in {n \in DOMAIN directory : EndsWithPdf(n)} |->
        [name |-> f, raster |-> directory[f].raster, pages |-> directory[f].pages]]

\* the directories of at most MaxDocs entries
DriverDirectories(names, documents) ==
    UNION {[S -> documents] : S \in {T \in SUBSET names : Cardinality(T) <= MaxDocs}}

\* matches_csv is not set, or names a file as the workers name theirs
MatchesCsvOptions == {<<>>, <<"a", "_matches.csv">>}

\* the aggregate table left by an earlier run
OldAggregate == <<CsvHeader, <<Pdf(<<"b">>), 1, <<"o", "l", "d">>>>>>

\* the state when the pool is created, or after the return for an empty directory
RunOcrStart ==
    /\ tool = "run_ocr"
    /\ \E directory \in DriverDirectories(OcrNames, OcrDocuments) :
          pdf_files = ListPdfFiles(directory)
    /\ filename_regex = <<>>
    /\ matches_csv \in MatchesCsvOptions
    /\ future = [d \in DOMAIN pdf_files |-> "pending"]
    /\ task_result = [d \in DOMAIN pdf_files |-> Pending]
    /\ all_matches = <<>>
    /\ count = 0
    /\ mismatch_count = 0
    /\ error_log = <<>>
    /\ verdict = [d \in DOMAIN pdf_files |-> <<>>]
    /\ collected = <<>>
    /\ marker = <<"M", "K">>
    /\ output_csv \in {<<>>, [f \in {MatchesCsv} |-> OldAggregate]}
    /\ output_csv0 = output_csv
    /\ csv_writable \in BOOLEAN
    /\ pdf = <<>>
    /\ regex_pattern = <<>>
    /\ start_page = 1
    /\ returned = NoReturn
    /\ case_insensitive = FALSE
    /\ RenameIdle
    /\ CopyIdle

InitRunOcr ==
    /\ RunOcrStart
    /\ pc = IF DOMAIN pdf_files = {} THEN "done" ELSE "pool"
    /\ ConfigLoaded

NextRunOcr ==
    \/ \E d \in DOMAIN pdf_files : OcrTask(d)
    \/ \E d \in DOMAIN pdf_files : OcrCollect(d)
    \/ OcrWrite

SpecRunOcr == InitRunOcr /\ [][NextRunOcr]_vars

\* the documents of the verification runs; the first page is never read
VerifyDocuments ==
    {[raster |-> "ok", pages |-> <<BadPage, GoodPage(<<"a", "1">>)>>],
     [raster |-> "ok", pages |-> <<GoodPage(<<"a", "1">>), GoodPage(<<"x">>)>>],
     [raster |-> "ok", pages |-> <<GoodPage(<<"a", "1">>)>>],
     [raster |-> "ok", pages |-> <<GoodPage(<<>>), GoodPage(<<"d", "2">>)>>],
     [raster |-> "ok", pages |-> <<GoodPage(<<>>),
                                   GoodPage(<<"a", "1", " ", "d", "2", " ">>)>>],
     [raster |-> "ok", pages |-> <<GoodPage(<<"a", "1">>), BadPage>>],
     [raster |-> "MemoryError", pages |-> <<>>],
     [raster |-> "DecompressionBombError", pages |-> <<>>],
     [raster |-> "DecompressionBombWarning", pages |-> <<>>],
     [raster |-> "WorkerDies", pages |-> <<>>]}

VerifyNames == {Pdf(<<"a", "1">>), Pdf(<<"d", "2", "a", "1">>), Pdf(<<"a", "d">>),
                Pdf(<<"a", "1", " ">>), <<"a", "1", ".", "t", "x", "t">>}

\* [a-z]\d and [a-z]\d\s
FilenameRegexes == {<<Lowercase, Digit>>, <<Lowercase, Digit, Whitespace>>}

\* the state when the pool is created (both ledgers hold their header), or after
\* the return for an empty directory
VerifyStart ==
    /\ tool = "verify"
    /\ \E directory \in DriverDirectories(VerifyNames, VerifyDocuments) :
          pdf_files = ListPdfFiles(directory)
    /\ filename_regex \in FilenameRegexes
    /\ matches_csv = <<>>
    /\ future = [d \in DOMAIN pdf_files |-> "pending"]
    /\ task_result = [d \in DOMAIN pdf_files |-> Pending]
    /\ all_matches = <<>>
    /\ count = 0
    /\ mismatch_count = 0
    /\ error_log = <<>>
    /\ verdict = [d \in DOMAIN pdf_files |-> <<>>]
    /\ collected = <<>>
    /\ marker = <<>>
    /\ output_csv = IF DOMAIN pdf_files = {} THEN <<>>
                    ELSE [f \in {UnmatchCsv, SkippedCsv} |->
                            IF f = UnmatchCsv THEN <<UnmatchHeader>>
                            ELSE <<SkippedHeader>>]
    /\ output_csv0 = output_csv
    /\ csv_writable = TRUE
    /\ pdf = <<>>
    /\ regex_pattern = <<>>
    /\ start_page = 1
    /\ returned = NoReturn
    /\ case_insensitive = FALSE
    /\ RenameIdle
    /\ CopyIdle

InitVerify ==
    /\ VerifyStart
    /\ pc = IF DOMAIN pdf_files = {} THEN "done" ELSE "pool"
    /\ ConfigLoaded

NextVerify ==
    \/ \E d \in DOMAIN pdf_files : VerifyTask(d)
    \/ \E d \in DOMAIN pdf_files : VerifyCollect(d)
    \/ \E ok_unmatch, ok_skipped \in BOOLEAN : VerifyFinish(ok_unmatch, ok_skipped)

SpecVerify == InitVerify /\ [][NextVerify]_vars

\* a run of either driver
SpecDrivers == (InitRunOcr \/ InitVerify) /\ [][NextRunOcr \/ NextVerify]_vars

(***************************************************************************)
(* ocr_for_B24_scaned_pdf.py: the driver of run_ocr without the aggregate  *)
(* table.                                                                  *)
(***************************************************************************)
\* ocr_for_B24_scaned_pdf.py lines 26-45: process_pdf_wrapper, as [result, files];
\* extract_matches_from_pdf returns a list, which is paired with None
B24ProcessPdfWrapper(doc, files, writable) ==
    LET r == ExtractMatchesFromPdf(doc, marker, files, writable)
    IN  [result |-> IF r.result.status = "raised"
                    THEN Failed(r.result.error.msg)
                    ELSE Ok(r.result.value),
         files |-> r.files]

\* a worker runs the task of file d
B24Task(d) ==
    /\ tool = "b24"
    /\ pc = "pool"
    /\ future[d] = "pending"
    /\ IF pdf_files[d].raster = "WorkerDies"
       THEN /\ WorkerDies(d)
            /\ UNCHANGED output_csv
       ELSE LET r == B24ProcessPdfWrapper(pdf_files[d], output_csv, csv_writable)
            IN  /\ future' = [future EXCEPT ![d] = "done"]
                /\ task_result' = [task_result EXCEPT ![d] = r.result]
                /\ output_csv' = r.files
    /\ UNCHANGED <<tool, pc, pdf_files, filename_regex, matches_csv, all_matches, count,
                   mismatch_count, error_log, verdict, collected, marker,
                   output_csv0, csv_writable, notDriver>>

\* ocr_for_B24_scaned_pdf.py lines 89-103: one turn of the as_completed loop
B24Collect(d) ==
    /\ tool = "b24"
    /\ pc = "pool"
    /\ future[d] = "done"
    /\ future' = [future EXCEPT ![d] = "collected"]
    /\ collected' = Append(collected, d)
    /\ LET r == task_result[d]
       IN  IF r.raises \/ ErrorIsTruthy(r)
           THEN /\ error_log' = Append(error_log, <<d, r.error>>)
                /\ UNCHANGED count
           ELSE /\ count' = count + 1
                /\ UNCHANGED error_log
    /\ UNCHANGED <<tool, pc, pdf_files, filename_regex, matches_csv, task_result, all_matches,
                   mismatch_count, verdict, marker, output_csv, output_csv0,
                   csv_writable, notDriver>>

\* ocr_for_B24_scaned_pdf.py lines 105-109: after the pool has drained
B24Finish ==
    /\ tool = "b24"
    /\ pc = "pool"
    /\ \A d \in DOMAIN future : future[d] = "collected"
    /\ pc' = "done"
    /\ UNCHANGED <<tool, pdf_files, filename_regex, matches_csv, future, task_result,
                   all_matches, count, mismatch_count, error_log, verdict,
                   collected, marker, output_csv, output_csv0, csv_writable,
                   notDriver>>

B24Start ==
    /\ tool = "b24"
    /\ \E directory \in DriverDirectories(OcrNames, OcrDocuments) :
          pdf_files = ListPdfFiles(directory)
    /\ filename_regex = <<>>
    /\ matches_csv = <<>>
    /\ future = [d \in DOMAIN pdf_files |-> "pending"]
    /\ task_result = [d \in DOMAIN pdf_files |-> Pending]
    /\ all_matches = <<>>
    /\ count = 0
    /\ mismatch_count = 0
    /\ error_log = <<>>
    /\ verdict = [d \in DOMAIN pdf_files |-> <<>>]
    /\ collected = <<>>
    /\ marker = <<"M", "K">>
    /\ output_csv = <<>>
    /\ output_csv0 = output_csv
    /\ csv_writable \in BOOLEAN
    /\ pdf = <<>>
    /\ regex_pattern = <<>>
    /\ start_page = 1
    /\ returned = NoReturn
    /\ case_insensitive = FALSE
    /\ RenameIdle
    /\ CopyIdle

NextB24 ==
    \/ \E d \in DOMAIN pdf_files : B24Task(d)
    \/ \E d \in DOMAIN pdf_files : B24Collect(d)
    \/ B24Finish

(***************************************************************************)
(* The entry points: every tool loads its YAML configuration first.        *)
(* config_file is "missing" when open() raises FileNotFoundError and       *)
(* "malformed" when yaml.safe_load raises yaml.YAMLError.                  *)
(***************************************************************************)
ConfigFiles == {"ok", "missing", "malformed"}

Loaded == [exit |-> "none", report |-> "none"]

\* every tool catches the error of the load, prints it and returns
LoadConfigCaught(t, file) ==
    IF file = "ok" THEN Loaded ELSE [exit |-> "returned", report |-> "print"]

\* run_ocr.py 50-54, ocr_for_B24_scaned_pdf.py 55-59, verify_filename_match.py
\* 67-71: except Exception, print, return; rename_pdf_by_ocr_result.py 142-145
\* and 31: a missing file is printed, any other error of load_config leaves
\* rename_pdfs; copy_pdf_by_name.py 88-122: the error is logged and raised again
LoadConfigOutcome(t, file) ==
    IF file = "ok" THEN Loaded
    ELSE IF t \in {"run_ocr", "b24", "verify"}
    THEN [exit |-> "returned", report |-> "print"]
    ELSE IF t = "rename"
    THEN (IF file = "missing" THEN [exit |-> "returned", report |-> "print"]
          ELSE [exit |-> "raised", report |-> "none"])
    ELSE [exit |-> "raised", report |-> "log"]

\* where the tool goes on once the configuration is loaded
EntryPc ==
    CASE tool = "rename" -> "loop"
      [] tool = "copy" -> "walk"
      [] OTHER -> IF DOMAIN pdf_files = {} THEN "done" ELSE "pool"

\* the entry point up to the first use of the configuration
LoadConfig ==
    /\ pc = "config"
    /\ exit' = LoadConfigOutcome(tool, config_file).exit
    /\ config_error' = LoadConfigOutcome(tool, config_file).report
    /\ pc' = IF exit' = "none" THEN EntryPc ELSE "exit"
    /\ UNCHANGED <<tool, config_file, renameVars, copyVars, extractorVars, driverVars>>

\* a tool is started on a configuration file
InitTools ==
    /\ pc = "config"
    /\ config_file \in ConfigFiles
    /\ exit = "none"
    /\ config_error = "none"
    /\ \/ RenameStart
       \/ CopyStart
       \/ RunOcrStart
       \/ B24Start
       \/ VerifyStart

NextTools ==
    \/ LoadConfig
    \/ NextRename
    \/ NextCopy
    \/ NextRunOcr
    \/ NextB24
    \/ NextVerify

SpecTools == InitTools /\ [][NextTools]_vars

(***************************************************************************)
(* Properties.                                                             *)
(***************************************************************************)
Contents(dir) == {dir[n] : n \in DOMAIN dir}

\* the table handled last had a target that existed as another file than its source
TargetWasOtherFile ==
    /\ last_rename.target # <<>>
    /\ \E stem \in DOMAIN last_rename.before :
          /\ SameEntry(case_insensitive, stem, last_rename.target)
          /\ ~SameEntry(case_insensitive, stem, last_rename.csv)

\* C1: a rename whose target exists as another file than the source is refused
\* and counted as failed, the directory (the target included) is left as it
\* was, and no file that was in the directory when the run started is ever
\* lost to an overwrite.
C1_CollisionNeverOverwrites ==
    tool = "rename" =>
        /\ TargetWasOtherFile =>
              /\ last_rename.outcome = "failed"
              /\ fail_count = last_rename.fails_before + 1
              /\ pdf_dir = last_rename.before
        /\ Contents(pdf_dir) = Contents(pdf_dir0)
        /\ Cardinality(DOMAIN pdf_dir) = Cardinality(DOMAIN pdf_dir0)

\* C1 witness: after a successful rename, a table whose target existed as
\* another file has been handled
C1_Witness ==
    /\ tool = "rename"
    /\ TargetWasOtherFile
    /\ success_count > 0

\* the smallest k >= 1 for which <base>_<k><ext> is not in the directory
SmallestFree(ci, dir, base, ext) ==
    Min({k \in 1..(Cardinality(DOMAIN dir) + 1) :
            ~Exists(ci, dir, Numbered(base, k, ext))})

\* C2: every copy goes to a name that was not in the output directory just
\* before it, namely the file's own name when that is free and otherwise
\* <base>_<k><ext> for the smallest free k >= 1; every file that was in the
\* output directory before the copy, or before the run, keeps its content.
C2_CopyNeverOverwrites ==
    tool = "copy" =>
        /\ last_copy.dst # <<>> =>
              /\ ~Exists(case_insensitive, last_copy.before, last_copy.dst)
              /\ last_copy.dst =
                    IF ~Exists(case_insensitive, last_copy.before, last_copy.file)
                    THEN last_copy.file
                    ELSE Numbered(SplitExt(last_copy.file).base,
                                  SmallestFree(case_insensitive, last_copy.before,
                                               SplitExt(last_copy.file).base,
                                               SplitExt(last_copy.file).ext),
                                  SplitExt(last_copy.file).ext)
              /\ \A n \in DOMAIN last_copy.before :
                    n \in DOMAIN output_dir /\ output_dir[n] = last_copy.before[n]
        /\ \A n \in DOMAIN output_dir0 :
              n \in DOMAIN output_dir /\ output_dir[n] = output_dir0[n]

\* C2 witness: a file was copied although its name and <base>_1<ext> were taken
C2_Witness ==
    /\ tool = "copy"
    /\ last_copy.outcome = "copied"
    /\ Exists(case_insensitive, last_copy.before, last_copy.file)
    /\ Exists(case_insensitive, last_copy.before,
              Numbered(SplitExt(last_copy.file).base, 1, SplitExt(last_copy.file).ext))
    /\ last_copy.dst \in DOMAIN output_dir

\* the lookup strings contained in the name of no PDF under the target directories
MatchedZeroDocuments ==
    {s \in Range(match_strings) :
        ~\E i \in 1..Len(walk0) :
            EndsWithPdf(walk0[i][1]) /\ Contains(walk0[i][1], s)}

\* every PDF whose name contains a lookup string was copied without an error
EveryCopySucceeded ==
    copied_files = Cardinality({i \in 1..Len(walk0) :
                                  /\ EndsWithPdf(walk0[i][1])
                                  /\ FirstMatch(match_strings, walk0[i][1]) # 0})

\* C4: the unmatched set find_and_copy_pdfs returns is exactly the set of lookup
\* strings that are a substring of the name of no PDF found (stated for the
\* runs in which no copy raised an error).
C4_UnmatchedIsExactlyZeroMatches ==
    (tool = "copy" /\ pc = "done" /\ EveryCopySucceeded)
        => unmatched_strings = MatchedZeroDocuments

\* matches at i, and no match taken further left reaches i
RECURSIVE IsTaken(_, _, _)
IsTaken(p, s, i) ==
    /\ MatchesAt(p, s, i)
    /\ \A j \in 1..(i - 1) : j + Len(p) > i => ~IsTaken(p, s, j)

\* the full-match spans of p in s
Spans(p, s) ==
    {SubSeq(s, i, i + Len(p) - 1) : i \in {k \in 1..Len(s) : IsTaken(p, s, k)}}

\* x without the whitespace before its first and after its last other character
Trimmed(x) ==
    LET solid == {k \in 1..Len(x) : x[k] \notin Whitespace}
    IN  IF solid = {} THEN <<>>
        ELSE SubSeq(x, Min(solid), CHOOSE k \in solid : \A m \in solid : m <= k)

\* the distinct trimmed non-empty full-match spans of p over the page texts
TrimmedSpans(p, texts) ==
    {Trimmed(x) : x \in UNION {Spans(p, texts[k]) : k \in 1..Len(texts)}} \ {<<>>}

Reverse(q) == [i \in 1..Len(q) |-> q[Len(q) + 1 - i]]

\* the texts of the pages extract_regex_matches was given
PageTexts ==
    [i \in 1..(Len(pdf.pages) - start_page + 1) |-> pdf.pages[start_page + i - 1].text]

\* C7: extract_regex_matches returns each distinct trimmed non-empty full-match
\* span of the pattern over the pages exactly once, and the same set whatever
\* the order of the pages.
C7_RegexMatchesAreDistinctTrimmedSpans ==
    (tool = "regex" /\ returned.status = "returned") =>
        /\ \A i, k \in 1..Len(returned.value) :
              returned.value[i] = returned.value[k] => i = k
        /\ Range(returned.value) = TrimmedSpans(regex_pattern, PageTexts)
        /\ Range(returned.value) =
              Range(ScanPages(<<>>, Reverse(PageTexts), regex_pattern))

\* C7 witness: two pages were searched, a match that had to be trimmed was
\* found on both, and at least two distinct matches are returned
C7_Witness ==
    /\ tool = "regex"
    /\ returned.status = "returned"
    /\ Len(PageTexts) = 2
    /\ Len(returned.value) >= 2
    /\ \E x \in Spans(regex_pattern, PageTexts[1]) :
          /\ Trimmed(x) # x
          /\ \E y \in Spans(regex_pattern, PageTexts[2]) : Trimmed(y) = Trimmed(x)

\* every page was rasterized and recognized
AllPagesRecognized ==
    pdf.raster = "ok" /\ \A i \in 1..Len(pdf.pages) : pdf.pages[i].ok

\* some line of some page contains the marker (the marker holds no line break)
SomeLineHasMarker ==
    \E i \in 1..Len(pdf.pages) : Contains(pdf.pages[i].text, marker)

\* the per-document table as the call found it
TableBefore ==
    IF IndividualCsvPath(pdf.name) \in DOMAIN output_csv0
    THEN output_csv0[IndividualCsvPath(pdf.name)]
    ELSE <<>>

\* C8 as stated: rows are appended to the per-document table if and only if
\* every page was rasterized and recognized and some line contains the marker;
\* without a matching line the result is empty and nothing is written; after a
\* failure the call raises, returns nothing and writes nothing.
C8_TableWrittenIffMatches ==
    (tool = "marker" /\ pc = "done") =>
        /\ (output_csv # output_csv0) <=> (AllPagesRecognized /\ SomeLineHasMarker)
        /\ (AllPagesRecognized /\ ~SomeLineHasMarker) =>
              returned = Return(<<>>) /\ output_csv = output_csv0
        /\ ~AllPagesRecognized =>
              /\ returned.status = "raised"
              /\ returned.value = <<>>
              /\ output_csv = output_csv0

\* C8 amended: rows are appended if and only if every page was rasterized and
\* recognized, some line contains the marker and the table could be opened for
\* writing; the rows appended are the matches returned, after the rows the
\* table had (or the header); when the table cannot be written the matches are
\* still returned; the other two cases are as stated.
C8_TableWrittenIffMatchesAndWritable ==
    (tool = "marker" /\ pc = "done") =>
        /\ (output_csv # output_csv0)
              <=> (AllPagesRecognized /\ SomeLineHasMarker /\ csv_writable)
        /\ (output_csv # output_csv0) =>
              /\ DOMAIN output_csv = DOMAIN output_csv0 \cup {IndividualCsvPath(pdf.name)}
              /\ returned.status = "returned"
              /\ output_csv[IndividualCsvPath(pdf.name)] =
                    (IF TableBefore = <<>> THEN <<CsvHeader>> ELSE TableBefore)
                    \o returned.value
        /\ (AllPagesRecognized /\ SomeLineHasMarker) =>
              returned.status = "returned" /\ returned.value # <<>>
        /\ (AllPagesRecognized /\ ~SomeLineHasMarker) =>
              returned = Return(<<>>) /\ output_csv = output_csv0
        /\ ~AllPagesRecognized =>
              /\ returned.status = "raised"
              /\ returned.value = <<>>
              /\ output_csv = output_csv0

\* C8 witness: the matching lines of two pages were appended to a table that
\* was there before
C8_Witness ==
    /\ tool = "marker"
    /\ pc = "done"
    /\ TableBefore # <<>>
    /\ Len(returned.value) >= 2
    /\ \E i, k \in 1..Len(returned.value) : returned.value[i][2] # returned.value[k][2]
    /\ Len(output_csv[IndividualCsvPath(pdf.name)]) = Len(TableBefore) + Len(returned.value)

Docs == DOMAIN pdf_files

\* the task of the document raises inside the worker (the worker itself lives)
OcrTaskRaises(doc) ==
    \/ doc.raster \notin {"ok", "WorkerDies"}
    \/ \E k \in 1..Len(doc.pages) : ~doc.pages[k].ok

\* the rows (pdf_path, page, text) of the lines of the document that hold the marker
MarkerRowsOf(doc) ==
    UNION {{<<doc.name, k, Trimmed(line)>> :
              line \in {l \in Range(SplitLines(doc.pages[k].text)) :
                          Contains(l, marker)}} :
           k \in 1..Len(doc.pages)}

\* the records of error_log about file d
ErrorEntries(d) == {i \in 1..Len(error_log) : error_log[i][1] = d}

\* C3: when exactly one task of a run_ocr run raises an error (and no worker
\* dies), the driver still collects every task, all_matches holds the matches
\* of the other N-1 documents, count is N-1, and exactly one error record is
\* logged, for the failing document.
C3_OneFailingTaskIsIsolated ==
    (/\ tool = "run_ocr"
     /\ pc = "done"
     /\ \A d \in Docs : pdf_files[d].raster # "WorkerDies"
     /\ Cardinality({d \in Docs : OcrTaskRaises(pdf_files[d])}) = 1) =>
        LET bad == CHOOSE d \in Docs : OcrTaskRaises(pdf_files[d])
        IN  /\ \A d \in Docs : future[d] = "collected"
            /\ \A d \in Docs \ {bad} : MarkerRowsOf(pdf_files[d]) \subseteq Range(all_matches)
            /\ count = Cardinality(Docs) - 1
            /\ Cardinality(ErrorEntries(bad)) = 1
            /\ \A d \in Docs \ {bad} : ErrorEntries(d) = {}

\* the task of the document returns a match list: it can be rasterized and every
\* page from the second on is recognized
CompletedWithoutError(doc) ==
    /\ doc.raster = "ok"
    /\ \A k \in 2..Len(doc.pages) : doc.pages[k].ok

\* the OCR match set: the pattern's distinct trimmed spans on the pages after the first
OcrSet(doc) ==
    TrimmedSpans(filename_regex,
                 [i \in 1..(Len(doc.pages) - 1) |-> doc.pages[i + 1].text])

\* the outcome the rules give file d
ExpectedVerdict(d) ==
    LET ocr == OcrSet(pdf_files[d])
        hits == {i \in 1..Len(d) : MatchesAt(filename_regex, d, i)}
        first == SubSeq(d, Min(hits), Min(hits) + Len(filename_regex) - 1)
    IN  IF ocr = {} THEN Verdict("skipped", {})
        ELSE IF hits = {} THEN Verdict("mismatched", ocr)
        ELSE IF first \in ocr THEN Verdict("verified", ocr)
        ELSE Verdict("mismatched", ocr)

\* the data rows of a ledger
DataRows(path) ==
    IF path \in DOMAIN output_csv THEN Tail(output_csv[path]) ELSE <<>>

\* how many data rows of the ledger are about file d
RowsFor(path, d) ==
    Cardinality({i \in 1..Len(DataRows(path)) : DataRows(path)[i][1] = d})

Classified(d) ==
    IF task_result[d].raises THEN "uncaught"
    ELSE IF pdf_files[d].raster \in {"DecompressionBombError", "DecompressionBombWarning"}
    THEN "guard"
    ELSE IF CompletedWithoutError(pdf_files[d]) THEN ExpectedVerdict(d).kind
    ELSE "error"

VerifyTaskFails(doc) == doc.raster # "WorkerDies" /\ ~CompletedWithoutError(doc)

SortedByIdentifier(rows) ==
    \A i \in 1..(Len(rows) - 1) : StrLeq(rows[i][1], rows[i + 1][1])

\* the rows a run added to a table
RowsOfRun(path) ==
    IF path \notin DOMAIN output_csv THEN <<>>
    ELSE IF path \in DOMAIN output_csv0
    THEN SubSeq(output_csv[path], Len(output_csv0[path]) + 1, Len(output_csv[path]))
    ELSE Tail(output_csv[path])

\* the final write or sort of the file was logged as failed
FinalStepFailed(path) == \E i \in 1..Len(error_log) : error_log[i][1] = path

RECURSIVE RowsInOrder(_)
RowsInOrder(files) ==
    IF files = <<>> THEN <<>>
    ELSE task_result[Head(files)].matches \o RowsInOrder(Tail(files))

\* the last rows of the table are the rows given
EndsWith(table, rows) ==
    /\ Len(rows) <= Len(table)
    /\ SubSeq(table, Len(table) - Len(rows) + 1, Len(table)) = rows

\* the rows the rules put in the ledger
ExpectedRows(path) ==
    IF path = UnmatchCsv
    THEN {<<d, IF MatchPositions(filename_regex, d) = {} THEN NoMatchInFilename
               ELSE SubSeq(d, Min(MatchPositions(filename_regex, d)),
                           Min(MatchPositions(filename_regex, d))
                           + Len(filename_regex) - 1),
            OcrSet(pdf_files[d])>> : d \in {x \in Docs : Classified(x) = "mismatched"}}
    ELSE {<<d, IF pdf_files[d].raster = "DecompressionBombError"
               THEN BombError ELSE BombWarning>> :
            d \in {x \in Docs : Classified(x) = "guard"}}

NothingProcessed ==
    /\ pdf_dir = pdf_dir0
    /\ success_count + fail_count + skip_count = 0
    /\ output_dir = output_dir0
    /\ copied_files = 0
    /\ walk = walk0
    /\ output_csv = output_csv0
    /\ \A d \in Docs : future[d] = "pending"
    /\ collected = <<>>
    /\ count + mismatch_count = 0

ConfiguredTools == {"run_ocr", "b24", "verify", "rename", "copy"}

\* C11 as stated: a tool whose configuration file is missing or cannot be
\* parsed prints or logs an error and returns without raising, and has
\* processed, renamed or copied nothing.
C11_BadConfigReturnsQuietly ==
    (tool \in ConfiguredTools /\ config_file # "ok") =>
        /\ pc \in {"config", "exit"}
        /\ NothingProcessed
        /\ pc = "exit" => (exit = "returned" /\ config_error # "none")

\* C11, amended: with a missing or unparseable configuration file no tool
\* processes, renames or copies anything; run_ocr, ocr_for_B24_scaned_pdf and
\* verify_filename_match print the error and return; rename_pdf_by_ocr_result
\* prints and returns for a missing file and lets the parse error escape
\* unreported; copy_pdf_by_name logs the error and raises it again.
C11_BadConfigProcessesNothing ==
    (tool \in ConfiguredTools /\ config_file # "ok") =>
        /\ pc \in {"config", "exit"}
        /\ NothingProcessed
        /\ pc = "exit" =>
              CASE tool \in {"run_ocr", "b24", "verify"} ->
                      exit = "returned" /\ config_error = "print"
                [] tool = "rename" ->
                      IF config_file = "missing"
                      THEN exit = "returned" /\ config_error = "print"
                      ELSE exit = "raised" /\ config_error = "none"
                [] tool = "copy" -> exit = "raised" /\ config_error = "log"

\* the rename tool left on a parse error with tables and PDFs waiting
C11_Witness ==
    /\ tool = "rename"
    /\ config_file = "malformed"
    /\ pc = "exit"
    /\ exit = "raised"
    /\ csv_files # <<>>
    /\ DOMAIN pdf_dir # {}

\* the patterns of the list that match the text somewhere
MatchingPatterns(text) ==
    {i \in 1..Len(patterns) : \E k \in 1..Len(text) : MatchesAt(patterns[i], text, k)}

\* the leftmost full match in the text of the first pattern that matches
WinningMatch(text) ==
    LET p == patterns[Min(MatchingPatterns(text))]
        k == Min({j \in 1..Len(text) : MatchesAt(p, text, j)})
    IN  SubSeq(text, k, k + Len(p) - 1)

\* x with every filesystem-illegal character replaced by an underscore
Underscored(x) ==
    [i \in 1..Len(x) |->
        IF x[i] \in {"\\", "/", "*", "?", ":", "\"", "<", ">", "|"} THEN "_" ELSE x[i]]

\* the table handled last had a PDF to rename
SourceWasThere ==
    /\ last_rename.outcome # "none"
    /\ \E n \in DOMAIN last_rename.before :
          SameEntry(case_insensitive, n, last_rename.csv)

\* C12: for a table whose PDF exists, the target stem is the sanitized full
\* match of the first pattern, in list order, that matches the trimmed text of
\* the table's first row, and a successful rename leaves the document under
\* that stem; when no pattern matches or the table has no usable first row the
\* table is skipped and the directory is left as it was.
C12_TargetFromFirstRowFirstPattern ==
    (tool = "rename" /\ SourceWasThere) =>
        LET row == last_rename.row
            text == Trimmed(row.text)
        IN  IF row.kind # "text" \/ MatchingPatterns(text) = {}
            THEN /\ last_rename.outcome = "skipped"
                 /\ pdf_dir = last_rename.before
            ELSE /\ last_rename.target = Underscored(WinningMatch(text))
                 /\ last_rename.outcome \in {"success", "failed"}
                 /\ last_rename.outcome = "success" =>
                       /\ last_rename.target \in DOMAIN pdf_dir
                       /\ \E n \in DOMAIN last_rename.before :
                             /\ SameEntry(case_insensitive, n, last_rename.csv)
                             /\ pdf_dir[last_rename.target] = last_rename.before[n]
                 /\ last_rename.outcome = "failed" => pdf_dir = last_rename.before

\* the lookup strings the file name contains, as positions in the list
LookupsIn(file) ==
    {i \in 1..Len(match_strings) :
        \E k \in 1..Len(file) :
            /\ k + Len(match_strings[i]) - 1 <= Len(file)
            /\ \A m \in 1..Len(match_strings[i]) : file[k + m - 1] = match_strings[i][m]}

\* the contents of the files the run was given
WalkedContents == {walk0[i][2] : i \in 1..Len(walk0)}

\* the entries of the output directory that are complete copies made by the run
CopiesMade == {n \in DOMAIN output_dir : output_dir[n] \in WalkedContents}

\* one file of the walk is handled: at most one copy is made, and only the
\* first lookup string the name contains can leave the unmatched set
OneCopyPerDocument ==
    (tool = "copy" /\ pc = "walk" /\ walk # <<>>) =>
        LET file == Head(walk)[1]
        IN  /\ Cardinality(DOMAIN output_dir') <= Cardinality(DOMAIN output_dir) + 1
            /\ copied_files' \in {copied_files, copied_files + 1}
            /\ copied_files' = copied_files + 1 => LookupsIn(file) # {}
            /\ unmatched_strings \ unmatched_strings' \subseteq
                  (IF LookupsIn(file) = {} THEN {}
                   ELSE {match_strings[Min(LookupsIn(file))]})

\* at any time no document has two complete copies, every complete copy is of
\* a PDF whose name contains a lookup string, and at the end copied_files is
\* the number of complete copies
CopiedCountIsCopiesMade ==
    tool = "copy" =>
        /\ \A n1, n2 \in CopiesMade : output_dir[n1] = output_dir[n2] => n1 = n2
        /\ \A n \in CopiesMade :
              \E i \in 1..Len(walk0) :
                  /\ walk0[i][2] = output_dir[n]
                  /\ EndsWithPdf(walk0[i][1])
                  /\ LookupsIn(walk0[i][1]) # {}
        /\ pc = "done" => copied_files = Cardinality(CopiesMade)

UnmatchedShrinks == tool = "copy" => unmatched_strings' \subseteq unmatched_strings

\* C14: the unmatched set starts as the set of all lookup strings and every
\* step of find_and_copy_pdfs leaves it a subset of what it was, so a string
\* removed after a match never comes back.
C14_UnmatchedOnlyShrinks ==
    /\ tool = "copy" => unmatched_strings = {match_strings[i] : i \in 1..Len(match_strings)}
    /\ [][UnmatchedShrinks]_vars

\* a second document matching a string that was already removed has been
\* copied, and the string is still out of the set
C14_Witness ==
    /\ tool = "copy"
    /\ copied_files = 2
    /\ last_copy.outcome = "copied"
    /\ Len(match_strings) = 2
    /\ unmatched_strings = {match_strings[2]}
    /\ last_copy.match = match_strings[1]

\* the rows of the table at the path, none when there is no such file
TableAt(files, path) == IF path \in DOMAIN files THEN files[path] ELSE <<>>

\* the step writes to the file at the path
Writes(path) == TableAt(output_csv', path) # TableAt(output_csv, path)

\* the step is the driver's write after the pool: every task has been collected
DriverWritesAfterCollection ==
    /\ \A d \in Docs : future[d] = "collected"
    /\ pc = "pool"
    /\ pc' = "done"

\* the per-document tables of the documents of the run
WorkerTables ==
    {SplitExt(d).base \o <<"_matches.csv">> : d \in Docs}

\* a step that writes the aggregate table is the driver's, after collection
AggregateWrittenByDriverOnly ==
    (tool = "run_ocr" /\ Writes(AggregatePath)) => DriverWritesAfterCollection

\* C15 as stated: in run_ocr every write to the aggregate table is the driver's
\* write after all tasks have been collected; no step of a worker writes to it.
C15_AggregateWrittenByDriverOnly == [][AggregateWrittenByDriverOnly]_vars

\* any other step writes at most the per-document tables, and the aggregate
\* table is written by the driver alone unless it is one of those tables
WorkersWriteTheirTablesOnly ==
    tool = "run_ocr" =>
        /\ ~DriverWritesAfterCollection =>
              \A path \in DOMAIN output_csv' : Writes(path) => path \in WorkerTables
        /\ DriverWritesAfterCollection =>
              \A path \in DOMAIN output_csv' : Writes(path) => path = AggregatePath
        /\ AggregatePath \notin WorkerTables => AggregateWrittenByDriverOnly

\* C15, amended: the driver writes the aggregate table, and nothing else, only
\* after every task has been collected; a worker writes only the per-document
\* table <stem>_matches.csv of a document of the run, so no worker writes to the
\* aggregate table unless matches_csv names such a per-document table.
C15_WorkersWriteTheirTablesOnly == [][WorkersWriteTheirTablesOnly]_vars

\* a run of two documents ended: both workers wrote a table, the driver wrote
\* the aggregate table, which is none of the workers' tables
C15_Witness ==
    /\ tool = "run_ocr"
    /\ pc = "done"
    /\ Cardinality(Docs) = 2
    /\ Cardinality(WorkerTables \cap DOMAIN output_csv) = 2
    /\ AggregatePath \notin WorkerTables
    /\ AggregatePath \in DOMAIN output_csv
    /\ AggregatePath \notin DOMAIN output_csv0

\* the documents whose rows the table holds
DocumentsIn(table) == {table[i][1] : i \in 2..Len(table)}

\* C16: the per-document tables written by the workers of one run each hold
\* the rows of one document only: no two documents of the run share a table.
C16_EachDocumentOwnsItsTable ==
    tool \in {"run_ocr", "b24"} =>
        \A path \in (DOMAIN output_csv \ DOMAIN output_csv0) \ {AggregatePath} :
            Cardinality(DocumentsIn(output_csv[path])) <= 1

Outcomes == success_count + fail_count + skip_count

\* handling a table adds one outcome and takes the table off the list
OneOutcomePerTable ==
    (tool = "rename" /\ csv_files' # csv_files) =>
        /\ Cardinality(DOMAIN csv_files') = Cardinality(DOMAIN csv_files) - 1
        /\ success_count' + fail_count' + skip_count' = Outcomes + 1
        /\ success_count' >= success_count
        /\ fail_count' >= fail_count
        /\ skip_count' >= skip_count

\* no outcome is counted without a table, the loop ends when no table is left,
\* and a table whose handling raised is counted as failed
TablesAllHandled ==
    tool = "rename" =>
        /\ pc = "done" => csv_files = <<>>
        /\ DOMAIN csv_files = {} \/ pc = "loop"
        /\ (SourceWasThere /\ last_rename.row.kind = "short") =>
              /\ last_rename.outcome = "failed"
              /\ fail_count = last_rename.fails_before + 1

\* C18: every table found at the start gives exactly one outcome among
\* success, failed and skipped, so that after the loop the three counters add
\* up to the number of tables; an exception raised for one table is counted as
\* failed for that table and the other tables are still handled.
C18_OneOutcomePerTable ==
    /\ tool = "rename" => Outcomes = 0
    /\ []TablesAllHandled
    /\ [][OneOutcomePerTable]_vars

\* a run of two tables ended: one was renamed, the handling of the other raised
C18_Witness ==
    /\ tool = "rename"
    /\ pc = "done"
    /\ last_rename.row.kind = "short"
    /\ last_rename.outcome = "failed"
    /\ success_count = 1
    /\ fail_count = 1
    /\ skip_count = 0

====
